---- MODULE Spec2Model ----
(***************************************************************************)
(* Model of bin/run-google-java-format.py: a driver that resolves two      *)
(* artifacts (the google-java-format jar and fixup-google-java-format.py), *)
(* runs the formatter on the command-line arguments, removes the           *)
(* arguments that start with "--", and runs the fixup program on the rest. *)
(* One behaviour of the model is one run of the script.  Strings that the  *)
(* script inspects (the arguments) are sequences of characters.            *)
(***************************************************************************)
EXTENDS Integers, Sequences, FiniteSets, TLC

\* ------------------------------------------------------------------ bounds
\* Longest argument list sys.argv[1:] that is explored.
MaxArgs == 2

\* The arguments a caller may pass: "", "--", "--h", "-a", "A", "A--".
ArgStrings ==
  { <<>>, <<"-", "-">>, <<"-", "-", "h">>, <<"-", "a">>, <<"A">>,
    <<"A", "-", "-">> }

\* Values subprocess.call can return: an exit status 0..255, or -N when the
\* child was killed by signal N.
ReturnCodes == {-9, 0, 1, 2, 255}

\* ------------------------------------------------------- names and paths
ScriptDir == "script_dir"
LibDir == "lib_dir"
Dirs == {ScriptDir, LibDir}

gjf_jar_name == "google-java-format-1.0-all-deps.jar"
fixup_name == "fixup-google-java-format.py"
Names == {gjf_jar_name, fixup_name}

\* os.path.join(dir, name)
Join(dir, name) == <<dir, name>>

fixup_py == Join(ScriptDir, fixup_name)

FormatterFlags == <<"--replace", "--sort-imports=also">>

FlagPrefix == <<"-", "-">>

UsageMsg == "run-google-java-format.py expects 1 or more filenames as arguments"
FixupErrorMsg == "Error when running fixup-google-java-format.py"

\* -------------------------------------------------------------- helpers
\* All sequences over S of length 0..n.
SeqsUpTo(S, n) == UNION { [1..k -> S] : k \in 0..n }

\* str.startswith
StartsWith(f, p) == Len(f) >= Len(p) /\ SubSeq(f, 1, Len(p)) = p

\* A variant of the filter that removes every argument starting with "-".
RECURSIVE FilterFilesDash(_)
FilterFilesDash(L) ==
  IF L = <<>> THEN <<>>
  ELSE IF StartsWith(Head(L), <<"-">>)
       THEN FilterFilesDash(Tail(L))
       ELSE <<Head(L)>> \o FilterFilesDash(Tail(L))

\* A variant of the filter that strips the prefix instead of dropping the
\* argument.
RECURSIVE FilterFilesStrip(_)
FilterFilesStrip(L) ==
  IF L = <<>> THEN <<>>
  ELSE IF StartsWith(Head(L), FlagPrefix)
       THEN <<SubSeq(Head(L), 3, Len(Head(L)))>> \o FilterFilesStrip(Tail(L))
       ELSE <<Head(L)>> \o FilterFilesStrip(Tail(L))

\* [f for f in files if not f.startswith("--")]
RECURSIVE FilterFiles(_)
FilterFiles(L) ==
  IF L = <<>> THEN <<>>
  ELSE IF StartsWith(Head(L), FlagPrefix)
       THEN FilterFiles(Tail(L))
       ELSE <<Head(L)>> \o FilterFiles(Tail(L))

\* The status the operating system reports for sys.exit(n).
ExitCode(n) == n % 256

\* The status of a Python process that dies of an uncaught exception.
ExceptionStatus == ExitCode(1)

\* ---------------------------------------------------------------- state
VARIABLES
  argv,            \* sys.argv[1:]
  files,           \* the script's variable files
  pc,              \* the statement the script is at
  fs,              \* the regular files on disk, as <<dir, name>>
  xbits,           \* the files on disk that are executable
  gjf_jar_path,    \* the script's variable gjf_jar_path
  fetches,         \* the urllib.urlretrieve calls made, in order
  formatterCalls,  \* the java subprocesses started, in order
  fixupCalls,      \* the fixup subprocesses started, in order
  result,          \* the script's variable result
  out,             \* what the script printed, in order
  how,             \* "running", "sys.exit", "exception" or "end"
  exitStatus       \* the driver's exit status once pc = "done"

vars == <<argv, files, pc, fs, xbits, gjf_jar_path, fetches, formatterCalls,
          fixupCalls, result, out, how, exitStatus>>

AllPaths == { Join(d, n) : d \in Dirs, n \in Names }

isfile(p) == p \in fs

Init ==
  /\ argv \in SeqsUpTo(ArgStrings, MaxArgs)
  /\ files = <<>>
  /\ pc = "resolve_jar"
  /\ fs \in SUBSET AllPaths
  /\ xbits \in SUBSET (fs \cap {fixup_py})
  /\ gjf_jar_path = <<>>
  /\ fetches = <<>>
  /\ formatterCalls = <<>>
  /\ fixupCalls = <<>>
  /\ result = 0
  /\ out = <<>>
  /\ how = "running"
  /\ exitStatus = -1

\* The script stops with an uncaught exception.
Raise ==
  /\ pc' = "done"
  /\ how' = "exception"
  /\ exitStatus' = ExceptionStatus

\* sys.exit(n)
SysExit(n) ==
  /\ pc' = "done"
  /\ how' = "sys.exit"
  /\ exitStatus' = ExitCode(n)

\* ------------------------------------------------- artifact resolution
\* Line 26-27: the jar is in the script's directory.
ResolveJarScript ==
  /\ pc = "resolve_jar"
  /\ isfile(Join(ScriptDir, gjf_jar_name))
  /\ gjf_jar_path' = Join(ScriptDir, gjf_jar_name)
  /\ pc' = "resolve_fixup"
  /\ UNCHANGED <<argv, files, fs, xbits, fetches, formatterCalls, fixupCalls,
                 result, out, how, exitStatus>>

\* A variant that probes the sibling lib directory first.
ResolveJarLibFirst ==
  /\ pc = "resolve_jar"
  /\ isfile(Join(LibDir, gjf_jar_name))
  /\ gjf_jar_path' = Join(LibDir, gjf_jar_name)
  /\ pc' = "resolve_fixup"
  /\ UNCHANGED <<argv, files, fs, xbits, fetches, formatterCalls, fixupCalls,
                 result, out, how, exitStatus>>

\* Line 28-29: the jar is not in the script's directory but in ../lib.
ResolveJarLib ==
  /\ pc = "resolve_jar"
  /\ ~isfile(Join(ScriptDir, gjf_jar_name))
  /\ isfile(Join(LibDir, gjf_jar_name))
  /\ gjf_jar_path' = Join(LibDir, gjf_jar_name)
  /\ pc' = "resolve_fixup"
  /\ UNCHANGED <<argv, files, fs, xbits, fetches, formatterCalls, fixupCalls,
                 result, out, how, exitStatus>>

\* A variant that fetches the jar whenever the script's directory lacks it.
DownloadJarOkEager ==
  /\ pc = "resolve_jar"
  /\ ~isfile(Join(ScriptDir, gjf_jar_name))
  /\ gjf_jar_path' = Join(ScriptDir, gjf_jar_name)
  /\ fs' = fs \cup {Join(ScriptDir, gjf_jar_name)}
  /\ fetches' = Append(fetches,
       [name |-> gjf_jar_name, target |-> Join(ScriptDir, gjf_jar_name),
        ok |-> TRUE])
  /\ pc' = "resolve_fixup"
  /\ UNCHANGED <<argv, files, xbits, formatterCalls, fixupCalls, result, out,
                 how, exitStatus>>

\* Line 30-32: the jar is in neither directory and urlretrieve succeeds.
DownloadJarOk ==
  /\ pc = "resolve_jar"
  /\ ~isfile(Join(ScriptDir, gjf_jar_name))
  /\ ~isfile(Join(LibDir, gjf_jar_name))
  /\ gjf_jar_path' = Join(ScriptDir, gjf_jar_name)
  /\ fs' = fs \cup {Join(ScriptDir, gjf_jar_name)}
  /\ fetches' = Append(fetches,
       [name |-> gjf_jar_name, target |-> Join(ScriptDir, gjf_jar_name),
        ok |-> TRUE])
  /\ pc' = "resolve_fixup"
  /\ UNCHANGED <<argv, files, xbits, formatterCalls, fixupCalls, result, out,
                 how, exitStatus>>

\* A variant in which a failed fetch of the jar is swallowed.
DownloadJarFailsSwallowed ==
  /\ pc = "resolve_jar"
  /\ ~isfile(Join(ScriptDir, gjf_jar_name))
  /\ ~isfile(Join(LibDir, gjf_jar_name))
  /\ gjf_jar_path' = Join(ScriptDir, gjf_jar_name)
  /\ fetches' = Append(fetches,
       [name |-> gjf_jar_name, target |-> Join(ScriptDir, gjf_jar_name),
        ok |-> FALSE])
  /\ pc' = "resolve_fixup"
  /\ UNCHANGED <<argv, files, fs, xbits, formatterCalls, fixupCalls, result,
                 out, how, exitStatus>>

\* Line 30-32: the jar is in neither directory and urlretrieve raises.  The
\* target file may or may not have been created before the failure.
DownloadJarFails ==
  /\ pc = "resolve_jar"
  /\ ~isfile(Join(ScriptDir, gjf_jar_name))
  /\ ~isfile(Join(LibDir, gjf_jar_name))
  /\ gjf_jar_path' = Join(ScriptDir, gjf_jar_name)
  /\ \E partial \in BOOLEAN :
       fs' = IF partial THEN fs \cup {Join(ScriptDir, gjf_jar_name)} ELSE fs
  /\ fetches' = Append(fetches,
       [name |-> gjf_jar_name, target |-> Join(ScriptDir, gjf_jar_name),
        ok |-> FALSE])
  /\ Raise
  /\ UNCHANGED <<argv, files, xbits, formatterCalls, fixupCalls, result, out>>

\* Line 34: fixup_py is already a file.
ResolveFixupFound ==
  /\ pc = "resolve_fixup"
  /\ isfile(fixup_py)
  /\ pc' = "usage"
  /\ UNCHANGED <<argv, files, fs, xbits, gjf_jar_path, fetches,
                 formatterCalls,
                 fixupCalls, result, out, how, exitStatus>>

\* A variant that goes on to the usage check without the chmod.
DownloadFixupOkNoChmod ==
  /\ pc = "resolve_fixup"
  /\ ~isfile(fixup_py)
  /\ fs' = fs \cup {fixup_py}
  /\ fetches' = Append(fetches,
       [name |-> fixup_name, target |-> fixup_py, ok |-> TRUE])
  /\ pc' = "usage"
  /\ UNCHANGED <<argv, files, xbits, gjf_jar_path, formatterCalls, fixupCalls,
                 result, out, how, exitStatus>>

\* Line 34-39: fixup_py is absent and urlretrieve succeeds.
DownloadFixupOk ==
  /\ pc = "resolve_fixup"
  /\ ~isfile(fixup_py)
  /\ fs' = fs \cup {fixup_py}
  /\ fetches' = Append(fetches,
       [name |-> fixup_name, target |-> fixup_py, ok |-> TRUE])
  /\ pc' = "chmod"
  /\ UNCHANGED <<argv, files, xbits, gjf_jar_path, formatterCalls, fixupCalls,
                 result, out, how, exitStatus>>

\* Line 34-39: fixup_py is absent and urlretrieve raises.
DownloadFixupFails ==
  /\ pc = "resolve_fixup"
  /\ ~isfile(fixup_py)
  /\ \E partial \in BOOLEAN :
       fs' = IF partial THEN fs \cup {fixup_py} ELSE fs
  /\ fetches' = Append(fetches,
       [name |-> fixup_name, target |-> fixup_py, ok |-> FALSE])
  /\ Raise
  /\ UNCHANGED <<argv, files, xbits, gjf_jar_path, formatterCalls, fixupCalls,
                 result, out>>

\* Line 41: os.chmod(fixup_py, mode | S_IXUSR | S_IXGRP | S_IXOTH)
ChmodFixup ==
  /\ pc = "chmod"
  /\ xbits' = xbits \cup {fixup_py}
  /\ pc' = "usage"
  /\ UNCHANGED <<argv, files, fs, gjf_jar_path, fetches, formatterCalls,
                 fixupCalls, result, out, how, exitStatus>>

\* ---------------------------------------------------------- the pipeline
\* A variant of the usage check that lets an empty list through.
UsageCheckLenient ==
  /\ pc = "usage"
  /\ files' = argv
  /\ pc' = "formatter"
  /\ UNCHANGED <<argv, fs, xbits, gjf_jar_path, fetches, formatterCalls,
                 fixupCalls, result, out, how, exitStatus>>

\* Line 48-51.
UsageCheck ==
  /\ pc = "usage"
  /\ files' = argv
  /\ IF Len(argv) = 0
     THEN /\ out' = Append(out, UsageMsg)
          /\ SysExit(1)
     ELSE /\ pc' = "formatter"
          /\ UNCHANGED <<out, how, exitStatus>>
  /\ UNCHANGED <<argv, fs, xbits, gjf_jar_path, fetches, formatterCalls,
                 fixupCalls, result>>

\* A variant with the commented-out lines 56-58 enabled.
RunFormatterStrict ==
  /\ pc = "formatter"
  /\ \E r \in ReturnCodes :
       /\ result' = r
       /\ IF r # 0
          THEN SysExit(r)
          ELSE pc' = "filter" /\ UNCHANGED <<how, exitStatus>>
       /\ formatterCalls' = Append(formatterCalls,
            [jar |-> gjf_jar_path, flags |-> FormatterFlags, args |-> files,
             status |-> r])
  /\ UNCHANGED <<argv, files, fs, xbits, gjf_jar_path, fetches, fixupCalls,
                 out>>

\* Line 53: subprocess.call(["java", "-jar", gjf_jar_path, "--replace",
\* "--sort-imports=also"] + files); the result is not inspected.
RunFormatter ==
  /\ pc = "formatter"
  /\ \E r \in ReturnCodes :
       /\ result' = r
       /\ formatterCalls' = Append(formatterCalls,
            [jar |-> gjf_jar_path, flags |-> FormatterFlags, args |-> files,
             status |-> r])
  /\ pc' = "filter"
  /\ UNCHANGED <<argv, files, fs, xbits, gjf_jar_path, fetches, fixupCalls,
                 out,
                 how, exitStatus>>

\* Line 53: subprocess.call raises OSError because java cannot be started.
RunFormatterOSError ==
  /\ pc = "formatter"
  /\ Raise
  /\ UNCHANGED <<argv, files, fs, xbits, gjf_jar_path, fetches,
                 formatterCalls,
                 fixupCalls, result, out>>

\* A variant of the filter step without the early exit.
FilterArgsNoExit ==
  /\ pc = "filter"
  /\ files' = FilterFiles(files)
  /\ pc' = "fixup"
  /\ UNCHANGED <<argv, fs, xbits, gjf_jar_path, fetches, formatterCalls,
                 fixupCalls, result, out, how, exitStatus>>

\* Line 61-64.
FilterArgs ==
  /\ pc = "filter"
  /\ files' = FilterFiles(files)
  /\ IF files' = <<>>
     THEN SysExit(0)
     ELSE pc' = "fixup" /\ UNCHANGED <<how, exitStatus>>
  /\ UNCHANGED <<argv, fs, xbits, gjf_jar_path, fetches, formatterCalls,
                 fixupCalls, result, out>>

\* A variant that reports every fixup failure as status 1.
RunFixupExitOne ==
  /\ pc = "fixup"
  /\ fixup_py \in xbits
  /\ \E r \in ReturnCodes :
       /\ result' = r
       /\ IF r # 0
          THEN /\ out' = Append(out, FixupErrorMsg)
               /\ SysExit(1)
          ELSE /\ pc' = "done"
               /\ how' = "end"
               /\ exitStatus' = 0
               /\ UNCHANGED out
       /\ fixupCalls' = Append(fixupCalls,
            [prog |-> fixup_py, args |-> files, status |-> r])
  /\ UNCHANGED <<argv, files, fs, xbits, gjf_jar_path, fetches,
                 formatterCalls>>

\* Line 67-70: subprocess.call([fixup_py] + files), then the end of the
\* script.  The program can only be started if it is executable.
RunFixup ==
  /\ pc = "fixup"
  /\ fixup_py \in xbits
  /\ \E r \in ReturnCodes :
       /\ result' = r
       /\ IF r # 0
          THEN /\ out' = Append(out, FixupErrorMsg)
               /\ SysExit(r)
          ELSE /\ pc' = "done"
               /\ how' = "end"
               /\ exitStatus' = 0
               /\ UNCHANGED out
       /\ fixupCalls' = Append(fixupCalls,
            [prog |-> fixup_py, args |-> files, status |-> r])
  /\ UNCHANGED <<argv, files, fs, xbits, gjf_jar_path, fetches,
                 formatterCalls>>

\* Line 67: subprocess.call raises OSError because fixup_py cannot be
\* started (not executable, or its interpreter is missing).
RunFixupOSError ==
  /\ pc = "fixup"
  /\ Raise
  /\ UNCHANGED <<argv, files, fs, xbits, gjf_jar_path, fetches,
                 formatterCalls,
                 fixupCalls, result, out>>

Next ==
  \/ ResolveJarScript
  \/ ResolveJarLib
  \/ DownloadJarOk
  \/ DownloadJarFails
  \/ ResolveFixupFound
  \/ DownloadFixupOk
  \/ DownloadFixupFails
  \/ ChmodFixup
  \/ UsageCheck
  \/ RunFormatter
  \/ RunFormatterOSError
  \/ FilterArgs
  \/ RunFixup
  \/ RunFixupOSError

Spec == Init /\ [][Next]_vars

TypeOK ==
  /\ argv \in SeqsUpTo(ArgStrings, MaxArgs)
  /\ pc \in {"resolve_jar", "resolve_fixup", "chmod", "usage", "formatter",
             "filter", "fixup", "done"}
  /\ fs \subseteq AllPaths
  /\ xbits \subseteq fs
  /\ \A i \in 1..Len(fetches) : fetches[i].name \in Names
  /\ how \in {"running", "sys.exit", "exception", "end"}
  /\ (pc = "done") = (how # "running")
  /\ (pc = "done") = (exitStatus \in 0..255)

\* ------------------------------------------------------------ properties
Done == pc = "done"

FormatterStatus == formatterCalls[1].status
FixupStatus == fixupCalls[1].status

Fetched(n) == \E i \in 1..Len(fetches) : fetches[i].name = n
FetchFailed(n) ==
  \E i \in 1..Len(fetches) : fetches[i].name = n /\ ~fetches[i].ok
FetchCount(n) == Cardinality({ i \in 1..Len(fetches) : fetches[i].name = n })

LooksLikeFlag(f) == Len(f) >= 2 /\ f[1] = "-" /\ f[2] = "-"
AllFlags == Len(argv) > 0 /\ \A i \in 1..Len(argv) : LooksLikeFlag(argv[i])
NonFlags(L) == SelectSeq(L, LAMBDA f : ~LooksLikeFlag(f))

RECURSIVE IsSubseq(_, _)
IsSubseq(s, t) ==
  IF s = <<>> THEN TRUE
  ELSE IF t = <<>> THEN FALSE
  ELSE IF Head(s) = Head(t) THEN IsSubseq(Tail(s), Tail(t))
  ELSE IsSubseq(s, Tail(t))

\* C1: when the fixup subprocess has been run and exited with a non-zero
\* status s, the driver's exit status is exactly s, whatever the formatter
\* returned.
C1_FixupStatusPropagated ==
  (Done /\ Len(fixupCalls) = 1 /\ FixupStatus \in 1..255)
    => (exitStatus = FixupStatus /\ how = "sys.exit")

C1_Witness ==
  /\ Done
  /\ Len(formatterCalls) = 1 /\ FormatterStatus = 1
  /\ Len(fixupCalls) = 1 /\ FixupStatus = 2
  /\ exitStatus = 2

\* C2: a formatter subprocess that exits non-zero does not end the driver:
\* the step that runs it leads to the filter step, and if the fixup
\* subprocess then runs and exits zero the driver's exit status is zero.
C2_FormatterToFilter ==
  (pc = "formatter" /\ Len(formatterCalls') = 1 /\ result' # 0)
    => (pc' = "filter" /\ how' = "running")

C2_ZeroAfterFixup ==
  (Done /\ Len(formatterCalls) = 1 /\ FormatterStatus # 0
        /\ Len(fixupCalls) = 1 /\ FixupStatus = 0)
    => exitStatus = 0

C2_FormatterFailureTolerated ==
  [](Len(argv) > 0 => C2_ZeroAfterFixup)
    /\ [][Len(argv) > 0 => C2_FormatterToFilter]_vars

C2_Witness ==
  /\ Done
  /\ Len(formatterCalls) = 1 /\ FormatterStatus = 1
  /\ Len(fixupCalls) = 1 /\ FixupStatus = 0
  /\ exitStatus = 0

\* C3: with zero arguments neither subprocess is ever started and the
\* driver's exit status is 1.
C3_NoArgsNoSubprocess ==
  Len(argv) = 0
    => /\ formatterCalls = <<>>
       /\ fixupCalls = <<>>
       /\ pc \notin {"formatter", "filter", "fixup"}
       /\ Done => exitStatus = 1

C3_Witness ==
  /\ Len(argv) = 0
  /\ Done
  /\ how = "sys.exit"
  /\ out = <<UsageMsg>>
  /\ exitStatus = 1

C5_Original ==
  [][\A n \in Names :
       (\E d \in {ScriptDir, LibDir} : <<d, n>> \in fs)
         => FetchCount(n)' = FetchCount(n)]_vars

\* C5 amended: no step fetches the formatter archive when it is present in
\* the script directory or in the sibling lib directory, and no step
\* fetches the fixup program when it is present in the script directory
\* (the only directory probed for it).
C5_NoFetchWhenPresent ==
  [][/\ (\E d \in {ScriptDir, LibDir} : <<d, gjf_jar_name>> \in fs)
          => FetchCount(gjf_jar_name)' = FetchCount(gjf_jar_name)
     /\ (<<ScriptDir, fixup_name>> \in fs)
          => FetchCount(fixup_name)' = FetchCount(fixup_name)]_vars

C5_Witness ==
  /\ pc = "formatter"
  /\ <<ScriptDir, gjf_jar_name>> \notin fs
  /\ <<LibDir, gjf_jar_name>> \in fs
  /\ fetches = <<>>

\* C6: every subprocess that was started was given a program path that is a
\* file on disk; once resolved, the archive path is the first of script
\* directory, lib directory that holds the archive; and every download goes
\* to the script directory.
C6_ResolvedPathsExist ==
  /\ \A i \in 1..Len(formatterCalls) :
       /\ formatterCalls[i].jar \in fs
       /\ formatterCalls[i].jar = gjf_jar_path
  /\ \A i \in 1..Len(fixupCalls) : fixupCalls[i].prog \in fs
  /\ (pc # "resolve_jar" /\ ~FetchFailed(gjf_jar_name))
       => /\ gjf_jar_path \in fs
          /\ gjf_jar_path[2] = gjf_jar_name
          /\ (<<ScriptDir, gjf_jar_name>> \in fs)
               => gjf_jar_path[1] = ScriptDir
  /\ \A i \in 1..Len(fetches) :
       /\ fetches[i].target = <<ScriptDir, fetches[i].name>>
       /\ fetches[i].ok => fetches[i].target \in fs

C6_Witness ==
  /\ Len(formatterCalls) = 1
  /\ formatterCalls[1].jar = <<LibDir, gjf_jar_name>>
  /\ Len(fixupCalls) = 1
  /\ Fetched(fixup_name)

\* C7: after a failed download the driver has stopped with a non-zero exit
\* status, no subprocess has been started, and the download was requested
\* once only.
C7_DownloadFailureAborts ==
  \A n \in Names :
    FetchFailed(n)
      => /\ Done
         /\ how = "exception"
         /\ exitStatus # 0
         /\ formatterCalls = <<>>
         /\ fixupCalls = <<>>
         /\ FetchCount(n) = 1
         /\ ~fetches[Len(fetches)].ok

C7_Witness ==
  /\ FetchFailed(fixup_name)
  /\ Fetched(gjf_jar_name)
  /\ Len(argv) > 0
  /\ Done

\* The filter step has acted in this state.
Filtered == Len(formatterCalls) = 1 /\ pc \in {"fixup", "done"}

\* C8: the filtered list is a subsequence of the argument list, in the same
\* order, and filtering it again gives the same list.
C8_FilterSubseqIdempotent ==
  Filtered => (IsSubseq(files, argv) /\ FilterFiles(files) = files)

C8_Witness ==
  /\ Filtered
  /\ Len(argv) = 2
  /\ LooksLikeFlag(argv[1])
  /\ files = <<argv[2]>>

\* C9: the formatter is given the two fixed flags and then the complete
\* argument list; the fixup program is given exactly the arguments that do
\* not start with "--", in order.
C9_ArgumentsPassed ==
  /\ \A i \in 1..Len(formatterCalls) :
       /\ formatterCalls[i].flags = <<"--replace", "--sort-imports=also">>
       /\ formatterCalls[i].args = argv
       /\ Len(argv) > 0
  /\ \A i \in 1..Len(fixupCalls) :
       /\ fixupCalls[i].args = NonFlags(argv)
       /\ fixupCalls[i].args # <<>>

C9_Witness ==
  /\ Len(fixupCalls) = 1
  /\ Len(argv) = 2
  /\ LooksLikeFlag(argv[2])
  /\ fixupCalls[1].args = <<argv[1]>>
  /\ formatterCalls[1].args = argv

\* C10: both artifacts are resolved (fetched and, for a fetched fixup
\* program, made executable) before the usage check; with zero arguments a
\* missing artifact is still fetched; and after a failed fetch the usage
\* message is never printed.
C10_ResolvedAtUsage ==
  (pc = "usage" \/ out # <<>>)
    => /\ gjf_jar_path \in fs
       /\ fixup_py \in fs
       /\ Fetched(fixup_name) => fixup_py \in xbits
       /\ \A n \in Names : ~FetchFailed(n)

C10_FailurePreempts ==
  (\E n \in Names : FetchFailed(n))
    => (Done /\ how = "exception" /\ out = <<>>)

C10_FetchStep ==
  /\ (pc = "resolve_jar" /\ \A d \in Dirs : <<d, gjf_jar_name>> \notin fs)
       => FetchCount(gjf_jar_name)' = 1
  /\ (pc = "resolve_fixup" /\ fixup_py \notin fs)
       => FetchCount(fixup_name)' = 1

C10_ResolutionBeforeUsage ==
  [](Len(argv) = 0 => (C10_ResolvedAtUsage /\ C10_FailurePreempts))
    /\ [][Len(argv) = 0 => C10_FetchStep]_vars

C10_Witness ==
  /\ Len(argv) = 0
  /\ Done
  /\ out = <<UsageMsg>>
  /\ exitStatus = 1
  /\ Len(fetches) = 2
  /\ fixup_py \in xbits
====
